---- MODULE Spec2Model ----
(***************************************************************************)
(* A model of the type system (typegraph/ty.py), of the constraint         *)
(* specifications of the operators add, concatenate and split              *)
(* (typegraph/op/ew.py, typegraph/op/trans.py), of the generation loop of  *)
(* typefuzz_div.py and of the reduction run of reduce_case.py.             *)
(*                                                                         *)
(* The expression language in which the constraint specifications are      *)
(* written (Range, ForAll, List, Cond, Concat, ReduceIndex, indexing) and  *)
(* the graph generator that samples and validates an operator instance are *)
(* not among the source files; their semantics are taken from the          *)
(* natural-language specification (sections 3, 4.2 and 4.4).               *)
(***************************************************************************)
EXTENDS Integers, Sequences, FiniteSets

VARIABLES
    pyv,        \* type_py_value: the native value v
    res,        \* type_py_value: the outcome (a Type or an exception)
    ty,         \* the Type object most recently constructed
    op,         \* generator: the operator of the current attempt
    ins,        \* generator: the bound input descriptors IN[0..]
    attrs,      \* generator: the sampled attribute values
    valid,      \* generator: outcome of evaluating the extra constraints
    outs,       \* generator: the derived output descriptors OUT[0..]
    graph,      \* generator: the vertices appended to the working graph
    phase,      \* generator: position in the generation step
    opr_limit,  \* typefuzz_div.main: options.limit
    opr_count,  \* typefuzz_div.main: cumulative operator count
    loop_idx,   \* typefuzz_div.main: iteration index
    generated,  \* typefuzz_div.main: len(graph.oprs_) of every graph generated
    pc,         \* typefuzz_div.main: "loop" or "done"
    dir,        \* reduce_case.main: the case directories, name -> files in it
    todo,       \* reduce_case.main: the sorted listing still to be visited
    cur,        \* reduce_case.main: the case being processed and the kind index
    log         \* reduce_case.main: the cases opened and reducers run, in order

vars == <<pyv, res, ty, op, ins, attrs, valid, outs, graph, phase,
          opr_limit, opr_count, loop_idx, generated, pc, dir, todo, cur, log>>

tyVars == <<pyv, res, ty>>
genVars == <<op, ins, attrs, valid, outs, graph, phase>>
fuzzVars == <<opr_limit, opr_count, loop_idx, generated, pc>>
redVars == <<dir, todo, cur, log>>

Min(a, b) == IF a <= b THEN a ELSE b
Max(a, b) == IF a >= b THEN a ELSE b

(***************************************************************************)
(* Bounds.                                                                 *)
(***************************************************************************)
MaxNodes == 4       \* constructor applications in a Type
MaxPyNodes == 4     \* objects in a native Python value
MaxRank == 2        \* rank of an input of add and split
MaxDim == 3         \* dimension size of an input of add and split
MaxIn == 2          \* number of inputs of concatenate
MaxLimit == 4       \* options.limit
MaxOprs == 2        \* operators in one generated graph
MaxIter == 4        \* iterations of the generation loop that are followed
MaxCases == 2       \* case directories in the directory of error cases

(***************************************************************************)
(* typegraph/ty.py                                                         *)
(***************************************************************************)
TypeKind == {"INT", "FLOAT", "STR", "DTYPE", "TUPLE", "LIST"}

RECURSIVE TypeEq(_, _)

\* Type.__eq__
Type_eq(self, other) == self.kind = other.kind

\* zip(self.field_ty_, other.field_ty_): pairs up to the shorter length
Zip(s, t) == [i \in 1..Min(Len(s), Len(t)) |-> <<s[i], t[i]>>]

\* Tuple.__eq__ without the length test: zip stops at the shorter tuple
Tuple_eq_NoLen(self, other) ==
    IF ~Type_eq(self, other) THEN FALSE
    ELSE LET z == Zip(self.field_ty_, other.field_ty_)
         IN \A i \in DOMAIN z : TypeEq(z[i][1], z[i][2])

\* Tuple.__eq__
Tuple_eq(self, other) ==
    IF ~Type_eq(self, other) THEN FALSE
    ELSE IF Len(self.field_ty_) # Len(other.field_ty_) THEN FALSE
    ELSE LET z == Zip(self.field_ty_, other.field_ty_)
         IN \A i \in DOMAIN z : TypeEq(z[i][1], z[i][2])

\* List.__eq__
List_eq(self, other) ==
    IF ~Type_eq(self, other) THEN FALSE
    ELSE TypeEq(self.elem_ty_, other.elem_ty_)

\* t1 == t2: Python calls the __eq__ of the class of the left operand
TypeEq(t1, t2) ==
    IF t1.kind = "TUPLE" THEN Tuple_eq(t1, t2)
    ELSE IF t1.kind = "LIST" THEN List_eq(t1, t2)
    ELSE Type_eq(t1, t2)

\* Tuple._is_homo comparing from the third field on (a slice off by one)
Tuple_is_homo_Skip(field_ty) ==
    IF Len(field_ty) <= 1 THEN TRUE
    ELSE \A i \in 3..Len(field_ty) : TypeEq(field_ty[i], field_ty[1])

\* Tuple._is_homo
Tuple_is_homo(field_ty) ==
    IF Len(field_ty) <= 1 THEN TRUE
    ELSE \A i \in 2..Len(field_ty) : TypeEq(field_ty[i], field_ty[1])

TyInt == [kind |-> "INT"]
TyFloat == [kind |-> "FLOAT"]
TyStr == [kind |-> "STR"]
TyDType == [kind |-> "DTYPE"]

\* Tuple.__init__
TyTuple(field_ty) ==
    [kind |-> "TUPLE", field_ty_ |-> field_ty, is_homo_ |-> Tuple_is_homo(field_ty)]

\* List.__init__
TyList(elem_ty) == [kind |-> "LIST", elem_ty_ |-> elem_ty]

NoType == [kind |-> "NONE"]

RECURSIVE TypesOfSize(_)
RECURSIVE FieldSeqs(_)

\* the Types built by exactly n constructor applications
TypesOfSize(n) ==
    IF n <= 0 THEN {}
    ELSE (IF n = 1 THEN {TyInt, TyFloat, TyStr, TyDType} ELSE {})
         \cup {TyList(e) : e \in TypesOfSize(n - 1)}
         \cup {TyTuple(f) : f \in FieldSeqs(n - 1)}

\* the sequences of Types built by exactly n constructor applications in all
FieldSeqs(n) ==
    IF n = 0 THEN {<<>>}
    ELSE UNION {{<<t>> \o s : t \in TypesOfSize(k), s \in FieldSeqs(n - k)} : k \in 1..n}

Types == UNION {TypesOfSize(n) : n \in 1..MaxNodes}

RECURSIVE NodeCount(_)
RECURSIVE SumNodes(_)
NodeCount(t) ==
    IF t.kind = "TUPLE" THEN 1 + SumNodes(t.field_ty_)
    ELSE IF t.kind = "LIST" THEN 1 + NodeCount(t.elem_ty_)
    ELSE 1
SumNodes(s) == IF s = <<>> THEN 0 ELSE NodeCount(Head(s)) + SumNodes(Tail(s))

(***************************************************************************)
(* Native Python values, up to the class of each object: the scalar's      *)
(* value is not read by type_py_value.  "NoneType" stands for any object   *)
(* that is no int, float, str, tuple or list.                              *)
(***************************************************************************)
PyScalars == {[py |-> "int"], [py |-> "float"], [py |-> "str"], [py |-> "NoneType"]}

RECURSIVE PyOfSize(_)
RECURSIVE PyItemSeqs(_)

PyOfSize(n) ==
    IF n <= 0 THEN {}
    ELSE (IF n = 1 THEN PyScalars ELSE {})
         \cup {[py |-> "tuple", items |-> s] : s \in PyItemSeqs(n - 1)}
         \cup {[py |-> "list", items |-> s] : s \in PyItemSeqs(n - 1)}

PyItemSeqs(n) ==
    IF n = 0 THEN {<<>>}
    ELSE UNION {{<<v>> \o s : v \in PyOfSize(k), s \in PyItemSeqs(n - k)} : k \in 1..n}

PyValues == UNION {PyOfSize(n) : n \in 1..MaxPyNodes}

Return(t) == [exc |-> "none", ty |-> t]
Raise(e) == [exc |-> e]
NoResult == [exc |-> "pending"]

RECURSIVE type_py_value(_)

\* type_py_value
type_py_value(v) ==
    IF v.py = "int" THEN Return(TyInt)
    ELSE IF v.py = "float" THEN Return(TyFloat)
    ELSE IF v.py = "str" THEN Return(TyStr)
    ELSE IF v.py = "tuple" THEN
        LET rs == [i \in 1..Len(v.items) |-> type_py_value(v.items[i])]
            bad == {i \in DOMAIN rs : rs[i].exc # "none"}
        IN IF bad # {}
           THEN rs[CHOOSE i \in bad : \A j \in bad : i <= j]
           ELSE Return(TyTuple([i \in DOMAIN rs |-> rs[i].ty]))
    ELSE IF v.py = "list" THEN
        IF Len(v.items) = 0 THEN Raise("IndexError")
        ELSE LET r == type_py_value(v.items[1])
             IN IF r.exc # "none" THEN r ELSE Return(TyList(r.ty))
    ELSE Raise("TypeError")

(***************************************************************************)
(* The expression language: evaluation of the nodes the three constraint   *)
(* specifications use.  An integer expression evaluates to [err, v], a     *)
(* boolean one to [err, b]; err records that the evaluation indexed a      *)
(* sequence outside its bounds.  Indices are zero-based and a negative     *)
(* index counts from the end, as ind[-1] in the split specification needs. *)
(***************************************************************************)
Val(x) == [err |-> FALSE, v |-> x]
Bool(x) == [err |-> FALSE, b |-> x]
IndexErrorV == [err |-> TRUE, v |-> 0]
IndexErrorB == [err |-> TRUE, b |-> FALSE]

\* Range(begin, end): the half-open interval, in ascending order
Range(begin, end) == [k \in 1..Max(end - begin, 0) |-> begin + k - 1]

\* arr[idx]
GetItem(arr, idx) ==
    LET k == IF idx < 0 THEN Len(arr) + idx ELSE idx
    IN IF k \in 0..(Len(arr) - 1) THEN Val(arr[k + 1]) ELSE IndexErrorV

\* arr[Range(...)]
Slice(arr, ran) == [k \in DOMAIN ran |-> GetItem(arr, ran[k])]

\* IN[i]
In(IN_, i) == IN_[i + 1]

EqE(x, y) == IF x.err \/ y.err THEN IndexErrorB ELSE Bool(x.v = y.v)
LtE(x, y) == IF x.err \/ y.err THEN IndexErrorB ELSE Bool(x.v < y.v)
GtE(x, y) == IF x.err \/ y.err THEN IndexErrorB ELSE Bool(x.v > y.v)
MaxE(x, y) == IF x.err \/ y.err THEN IndexErrorV ELSE Val(Max(x.v, y.v))
MinE(x, y) == IF x.err \/ y.err THEN IndexErrorV ELSE Val(Min(x.v, y.v))
SubE(x, y) == IF x.err \/ y.err THEN IndexErrorV ELSE Val(x.v - y.v)
AddE(x, y) == IF x.err \/ y.err THEN IndexErrorV ELSE Val(x.v + y.v)

Or(args) ==
    IF \E k \in DOMAIN args : args[k].err THEN IndexErrorB
    ELSE Bool(\E k \in DOMAIN args : args[k].b)

\* the indices of a Range or of a List of the given length
Indices(ran) == {ran[k] : k \in DOMAIN ran}
Upto(len) == 0..(len - 1)

\* ForAll(ran, body_f), body_f given as the function of the index
ForAll(ran, body_f) ==
    IF \E k \in DOMAIN ran : body_f[ran[k]].err THEN IndexErrorB
    ELSE Bool(\A k \in DOMAIN ran : body_f[ran[k]].b)

Cond(pred, then, else) == IF pred THEN then ELSE else

\* List(len, body_f): body_f at the indices 0 .. len-1
List(len, body_f) == [k \in 1..len |-> body_f[k - 1]]

Concat(s, t) == s \o t

ArithApply(arith_op, x, y) == IF arith_op = "ADD" THEN AddE(x, y) ELSE SubE(x, y)

RECURSIVE FoldLeft(_, _, _)
FoldLeft(arith_op, acc, vals) ==
    IF vals = <<>> THEN acc
    ELSE FoldLeft(arith_op, ArithApply(arith_op, acc, Head(vals)), Tail(vals))

\* ReduceIndex(ran, op, init, body_f): the left fold of op from init
ReduceIndex(ran, arith_op, init, body_f) ==
    FoldLeft(arith_op, Val(init), [k \in DOMAIN ran |-> body_f[ran[k]]])

\* the concrete dimension sizes of an evaluated shape expression
Sizes(shape) == [k \in DOMAIN shape |-> shape[k].v]

(***************************************************************************)
(* typegraph/op/ew.py: the constraint specification of add                 *)
(***************************************************************************)
\* extra
bcast_extra(IN_) ==
    LET m == In(IN_, 0).rank
        n == In(IN_, 1).rank
    IN <<EqE(Val(In(IN_, 0).dtype), Val(In(IN_, 1).dtype)),
         ForAll(Range(0, Min(m, n)), [i \in Indices(Range(0, Min(m, n))) |-> Or(<<
             EqE(GetItem(In(IN_, 0).shape, m - i), GetItem(In(IN_, 1).shape, n - i)),
             EqE(GetItem(In(IN_, 0).shape, m - i), Val(1)),
             EqE(GetItem(In(IN_, 1).shape, n - i), Val(1))>>)])>>

bcast_out_num == 1

bcast_out_ranks(IN_) == <<Max(In(IN_, 0).rank, In(IN_, 1).rank)>>

bcast_out_dtypes(IN_) == <<In(IN_, 0).dtype>>

\* out_shapes with the copied leading range one short
bcast_out_shapes_ShortLead(IN_) ==
    LET m == In(IN_, 0).rank
        n == In(IN_, 1).rank
    IN <<Cond(m >= n,
              Concat(Slice(In(IN_, 0).shape, Range(0, m - n - 1)),
                     List(n, [i \in Upto(n) |-> MaxE(GetItem(In(IN_, 0).shape, m - n + i),
                                                  GetItem(In(IN_, 1).shape, i))])),
              Concat(Slice(In(IN_, 1).shape, Range(0, n - m - 1)),
                     List(m, [i \in Upto(m) |-> MaxE(GetItem(In(IN_, 0).shape, i),
                                                  GetItem(In(IN_, 1).shape, n - m + i))])))>>

\* out_shapes
bcast_out_shapes(IN_) ==
    LET m == In(IN_, 0).rank
        n == In(IN_, 1).rank
    IN <<Cond(m >= n,
              Concat(Slice(In(IN_, 0).shape, Range(0, m - n)),
                     List(n, [i \in Upto(n) |-> MaxE(GetItem(In(IN_, 0).shape, m - n + i),
                                                  GetItem(In(IN_, 1).shape, i))])),
              Concat(Slice(In(IN_, 1).shape, Range(0, n - m)),
                     List(m, [i \in Upto(m) |-> MaxE(GetItem(In(IN_, 0).shape, i),
                                                  GetItem(In(IN_, 1).shape, n - m + i))])))>>

(***************************************************************************)
(* typegraph/op/trans.py: the constraint specification of concatenate      *)
(***************************************************************************)
\* attrs: axis in Range(0, IN[0].rank)
concat_axis(IN_) == Range(0, In(IN_, 0).rank)

\* extra
concat_extra(IN_, a) == <<>>

concat_out_num == 1

concat_out_ranks(IN_, a) == <<In(IN_, 0).rank>>

concat_out_dtypes(IN_, a) == <<In(IN_, 0).dtype>>

\* out_shapes with the sum taken over the inputs after the first
concat_out_shapes_SkipFirst(IN_, a) ==
    <<List(In(IN_, 0).rank, [j \in Upto(In(IN_, 0).rank) |-> Cond(
        j = a.axis,
        ReduceIndex(Range(1, Len(IN_)), "ADD", 0,
                    [i \in Indices(Range(1, Len(IN_))) |-> GetItem(In(IN_, i).shape, j)]),
        GetItem(In(IN_, 0).shape, j))])>>

\* out_shapes
concat_out_shapes(IN_, a) ==
    <<List(In(IN_, 0).rank, [j \in Upto(In(IN_, 0).rank) |-> Cond(
        j = a.axis,
        ReduceIndex(Range(0, Len(IN_)), "ADD", 0,
                    [i \in Indices(Range(0, Len(IN_))) |-> GetItem(In(IN_, i).shape, j)]),
        GetItem(In(IN_, 0).shape, j))])>>

(***************************************************************************)
(* typegraph/op/trans.py: the constraint specification of split            *)
(***************************************************************************)
\* attrs: axis in Range(0, IN[0].rank)
split_axis(IN_) == Range(0, In(IN_, 0).rank)

\* attrs: the length of indices_or_sections in Range(1, IN[0].shape[axis])
split_ind_len(IN_, axis) == Range(1, GetItem(In(IN_, 0).shape, axis).v)

\* extra
split_extra(IN_, a) ==
    LET ind == a.ind
    IN <<GtE(GetItem(ind, 0), Val(0)),
         ForAll(Range(1, Len(ind)),
                [i \in Indices(Range(1, Len(ind))) |-> LtE(GetItem(ind, i - 1), GetItem(ind, i))]),
         LtE(GetItem(ind, -1), GetItem(In(IN_, 0).shape, a.axis))>>

\* out_num
split_out_num(IN_, a) == Len(a.ind) + 1

\* out_ranks
split_out_ranks(IN_, a) ==
    List(split_out_num(IN_, a), [i \in Upto(split_out_num(IN_, a)) |-> In(IN_, 0).rank])

\* out_dtypes
split_out_dtypes(IN_, a) ==
    List(split_out_num(IN_, a), [i \in Upto(split_out_num(IN_, a)) |-> In(IN_, 0).dtype])

\* out_shapes with the last piece measured from the first index
split_out_shapes_LastFromFirst(IN_, a) ==
    LET ind == a.ind
    IN List(split_out_num(IN_, a), [i \in Upto(split_out_num(IN_, a)) |->
        List(In(IN_, 0).rank, [j \in Upto(In(IN_, 0).rank) |-> Cond(
            j = a.axis,
            Cond(i = 0, GetItem(ind, 0),
                 Cond(i = Len(ind), SubE(GetItem(In(IN_, 0).shape, j), GetItem(ind, 0)),
                      SubE(GetItem(ind, i), GetItem(ind, i - 1)))),
            GetItem(In(IN_, 0).shape, j))])])

\* out_shapes
split_out_shapes(IN_, a) ==
    LET ind == a.ind
    IN List(split_out_num(IN_, a), [i \in Upto(split_out_num(IN_, a)) |->
        List(In(IN_, 0).rank, [j \in Upto(In(IN_, 0).rank) |-> Cond(
            j = a.axis,
            Cond(i = 0, GetItem(ind, 0),
                 Cond(i = Len(ind), SubE(GetItem(In(IN_, 0).shape, j), GetItem(ind, -1)),
                      SubE(GetItem(ind, i), GetItem(ind, i - 1)))),
            GetItem(In(IN_, 0).shape, j))])])

(***************************************************************************)
(* One step of the graph generator: bind inputs and sample attributes,     *)
(* validate the extra constraints, then derive the outputs and append the  *)
(* vertex, or reject the attempt and resample.                             *)
(***************************************************************************)
DTypes == {"float32", "int32"}
Dims == 0..MaxDim
IndVals == (0 - 1)..(MaxDim + 1)
ScenarioDims == {2, 3, 4, 5}    \* the sizes of the concatenate scenario
ConcatRanks == {1, 2}

\* the tensor descriptors of the given ranks over the given sizes
Descriptors(ranks, sizes) ==
    UNION {{[rank |-> r, dtype |-> d, shape |-> s] : d \in DTypes, s \in [1..r -> sizes]}
           : r \in ranks}

NoAttrs == [axis |-> 0, ind |-> <<>>]

\* step 4: every extra constraint is evaluated; the attempt passes iff all hold
Validate(extra) ==
    IF \E k \in DOMAIN extra : extra[k].err THEN "error"
    ELSE IF \A k \in DOMAIN extra : extra[k].b THEN "pass"
    ELSE "fail"

\* step 6: the output descriptors
Derive(num, ranks, dtypes, shapes) ==
    [k \in 1..num |-> [rank |-> ranks[k], dtype |-> dtypes[k], shape |-> Sizes(shapes[k])]]

(***************************************************************************)
(* Idle values of the variable groups.                                      *)
(***************************************************************************)
NoValue == [py |-> "unset"]
NoCase == [case |-> <<>>, kind |-> 0]

TyIdle == pyv = NoValue /\ res = NoResult /\ ty = NoType

GenIdle ==
    /\ op = "none" /\ ins = <<>> /\ attrs = NoAttrs
    /\ valid = "none" /\ outs = <<>> /\ graph = <<>> /\ phase = "select"

FuzzIdle ==
    /\ opr_limit = 0 /\ opr_count = 0 /\ loop_idx = 0
    /\ generated = <<>> /\ pc = "idle"

RedIdle == dir = <<>> /\ todo = <<>> /\ cur = NoCase /\ log = <<>>

\* steps 4 to 6 for an attempt with the given operator, inputs and attributes
Attempt(name, IN_, a, extra, out) ==
    /\ op' = name /\ ins' = IN_ /\ attrs' = a
    /\ valid' = Validate(extra)
    /\ IF Validate(extra) = "pass"
       THEN /\ outs' = out
            /\ graph' = Append(graph, [op |-> name, ins |-> IN_, attrs |-> a, outs |-> out])
            /\ phase' = "done"
       ELSE /\ outs' = <<>>
            /\ graph' = graph
            /\ phase' = "rejected"
    /\ UNCHANGED <<tyVars, fuzzVars, redVars>>

bcast_derive(IN_) ==
    Derive(bcast_out_num, bcast_out_ranks(IN_), bcast_out_dtypes(IN_), bcast_out_shapes(IN_))

concat_derive(IN_, a) ==
    Derive(concat_out_num, concat_out_ranks(IN_, a), concat_out_dtypes(IN_, a),
           concat_out_shapes(IN_, a))

split_derive(IN_, a) ==
    Derive(split_out_num(IN_, a), split_out_ranks(IN_, a), split_out_dtypes(IN_, a),
           split_out_shapes(IN_, a))

GenerateAdd ==
    /\ phase = "select"
    /\ \E x, y \in Descriptors(0..MaxRank, Dims) :
        Attempt("add", <<x, y>>, NoAttrs, bcast_extra(<<x, y>>), bcast_derive(<<x, y>>))

GenerateConcat ==
    /\ phase = "select"
    /\ \E num \in 1..MaxIn : \E r \in ConcatRanks :
        \E IN_ \in [1..num -> Descriptors({r}, ScenarioDims)] :
            \E k \in DOMAIN concat_axis(IN_) :
                LET a == [axis |-> concat_axis(IN_)[k], ind |-> <<>>]
                IN Attempt("concatenate", IN_, a, concat_extra(IN_, a), concat_derive(IN_, a))

GenerateSplit ==
    /\ phase = "select"
    /\ \E x \in Descriptors(1..MaxRank, Dims) :
        \E k \in DOMAIN split_axis(<<x>>) :
            LET axis == split_axis(<<x>>)[k]
                lens == split_ind_len(<<x>>, axis)
            IN \E l \in DOMAIN lens : \E ind \in [1..lens[l] -> IndVals] :
                LET a == [axis |-> axis, ind |-> ind]
                IN Attempt("split", <<x>>, a, split_extra(<<x>>, a), split_derive(<<x>>, a))

\* step 5: a failed attempt leaves the graph as it was and is sampled again
Resample ==
    /\ phase = "rejected"
    /\ op' = "none" /\ ins' = <<>> /\ attrs' = NoAttrs
    /\ valid' = "none" /\ outs' = <<>> /\ phase' = "select"
    /\ UNCHANGED <<graph, tyVars, fuzzVars, redVars>>

InitGen == TyIdle /\ GenIdle /\ FuzzIdle /\ RedIdle

NextGen == GenerateAdd \/ GenerateConcat \/ GenerateSplit \/ Resample

SpecGen == InitGen /\ [][NextGen]_vars

(***************************************************************************)
(* Properties of the operator specifications.                              *)
(***************************************************************************)
\* the k-th aligned trailing pair, k = 0 for the last dimensions
AlignedPair(x, y, k) == <<x.shape[x.rank - k], y.shape[y.rank - k]>>

\* every aligned trailing pair has equal sizes or a size of 1
Compatible(x, y) ==
    \A k \in 0..(Min(x.rank, y.rank) - 1) :
        LET d == AlignedPair(x, y, k)
        IN d[1] = d[2] \/ d[1] = 1 \/ d[2] = 1

Front(s) == SubSeq(s, 1, Len(s) - 1)
Last(s) == s[Len(s)]

RECURSIVE NumpyBroadcast(_, _)

\* the NumPy broadcast of two compatible shapes: aligned from the end, a size
\* of 1 gives way to the other size
NumpyBroadcast(s, t) ==
    IF s = <<>> THEN t
    ELSE IF t = <<>> THEN s
    ELSE Append(NumpyBroadcast(Front(s), Front(t)),
                IF Last(s) = 1 THEN Last(t) ELSE Last(s))

RECURSIVE SumSeq(_)
SumSeq(s) == IF s = <<>> THEN 0 ELSE Head(s) + SumSeq(Tail(s))

\* C1: a pair of add inputs of equal dtype passes the extra constraints iff
\* every aligned trailing pair is compatible, and evaluating the constraints
\* indexes no shape outside its bounds.
C1_BcastExtraIffCompatible ==
    (op = "add" /\ phase # "select" /\ ins[1].dtype = ins[2].dtype) =>
        /\ valid # "error"
        /\ valid = "pass" <=> Compatible(ins[1], ins[2])

C4_SplitInvariant ==
    (op = "split" /\ valid = "pass") =>
        LET x == ins[1]
            ax == attrs.axis + 1
            s == x.shape[ax]
            ind == attrs.ind
            n == Len(ind)
        IN /\ \A k \in 1..(n - 1) : ind[k] < ind[k + 1]
           /\ \A k \in 1..n : 0 < ind[k] /\ ind[k] < s
           /\ phase = "done"
           /\ Len(outs) = n + 1
           /\ \A k \in DOMAIN outs :
                /\ outs[k].rank = x.rank
                /\ Len(outs[k].shape) = x.rank
                /\ \A j \in DOMAIN x.shape : j # ax => outs[k].shape[j] = x.shape[j]
           /\ SumSeq([k \in DOMAIN outs |-> outs[k].shape[ax]]) = s

\* a split at two indices of the second axis has been derived
C4_Witness ==
    /\ op = "split" /\ phase = "done"
    /\ Len(attrs.ind) = 2 /\ attrs.axis = 1
    /\ Len(outs) = 3

C8_ConcatOutput ==
    (op = "concatenate" /\ phase # "select") =>
        LET ax == attrs.axis + 1
            r == ins[1].rank
        IN /\ phase = "done"
           /\ Len(outs) = 1
           /\ outs[1].rank = r
           /\ Len(outs[1].shape) = r
           /\ outs[1].dtype = ins[1].dtype
           /\ outs[1].shape[ax] = SumSeq([i \in DOMAIN ins |-> ins[i].shape[ax]])
           /\ \A j \in 1..r : j # ax => outs[1].shape[j] = ins[1].shape[j]
           /\ (/\ Len(ins) = 2 /\ attrs.axis = 1
               /\ ins[1].shape = <<3, 4>> /\ ins[2].shape = <<3, 5>>)
              => outs[1].shape = <<3, 9>>

\* the scenario instance has been generated
C8_Witness ==
    /\ op = "concatenate" /\ phase = "done"
    /\ Len(ins) = 2 /\ attrs.axis = 1
    /\ ins[1].shape = <<3, 4>> /\ ins[2].shape = <<3, 5>>
    /\ outs[1].shape = <<3, 9>>

(***************************************************************************)
(* typefuzz_div.py: the generation loop of main.  A graph comes from the   *)
(* generator with any number of operators from 0 to MaxOprs.               *)
(***************************************************************************)
InitFuzz ==
    /\ opr_limit \in (0 - 1)..MaxLimit
    /\ opr_count = 0 /\ loop_idx = 0 /\ generated = <<>> /\ pc = "loop"
    /\ TyIdle /\ GenIdle /\ RedIdle

\* the stop test with > in place of >=
LimitReached_Strict(count, limit) == count > limit

\* Stop if operation limit is reached
LimitReached(count, limit) == count >= limit

\* one iteration of the while loop
Iterate ==
    /\ pc = "loop"
    /\ loop_idx < MaxIter
    /\ \E opr_num \in 0..MaxOprs :
        /\ generated' = Append(generated, opr_num)
        /\ opr_count' = opr_count + opr_num
        /\ IF LimitReached(opr_count + opr_num, opr_limit)
           THEN pc' = "done" /\ loop_idx' = loop_idx
           ELSE pc' = "loop" /\ loop_idx' = loop_idx + 1
    /\ UNCHANGED <<opr_limit, tyVars, genVars, redVars>>

NextFuzz == Iterate

\* the loop is a sequential program: an iteration that can run does run
SpecFuzz == InitFuzz /\ [][NextFuzz]_vars /\ WF_vars(Iterate)

\* the operator count after the first k graphs
CountAfter(k) == SumSeq(SubSeq(generated, 1, k))

\* C9: opr_count is the sum of the operator counts of the graphs generated;
\* the loop has exited iff some iteration ended with opr_count >= limit, it
\* exited in the first such iteration and generates no graph afterwards; and
\* if every graph has at least one operator the loop eventually exits.
C9_BudgetLoop ==
    /\ [](opr_count = SumSeq(generated))
    /\ [](pc = "done" =>
            /\ generated # <<>>
            /\ opr_count >= opr_limit
            /\ \A k \in 1..(Len(generated) - 1) : CountAfter(k) < opr_limit)
    /\ [](pc = "loop" => \A k \in 1..Len(generated) : CountAfter(k) < opr_limit)
    /\ [][pc = "done" => (pc' = "done" /\ generated' = generated)]_vars
    /\ ([](\A k \in DOMAIN generated : generated[k] >= 1) => <>(pc = "done"))

\* the loop has exited after three graphs, one of them without operators,
\* with the count above the limit
C9_Witness ==
    /\ pc = "done"
    /\ Len(generated) = 3
    /\ \E k \in DOMAIN generated : generated[k] = 0
    /\ opr_count = opr_limit + 1

(***************************************************************************)
(* reduce_case.py: main.  A case directory is named by a string of digits; *)
(* its files are the kind markers it was stored with and what the run      *)
(* writes.  The reducers are external: a run returns any extra string.     *)
(***************************************************************************)
CaseNames == {<<2>>, <<1, 0>>, <<0, 3>>}

\* zip of the error kinds with the reducer classes
Kinds == <<"COMPILE", "RUN", "COMPUTE">>
Reducers == <<"CompileReducer", "RunReducer", "ComputeReducer">>

Extras == {<<>>, <<"e">>}

RECURSIVE IntOf(_)

\* int(s)
IntOf(name) == IF name = <<>> THEN 0 ELSE 10 * IntOf(Front(name)) + Last(name)

RECURSIVE StrLeq(_, _)

\* s <= t on strings
StrLeq(s, t) ==
    IF s = <<>> THEN TRUE
    ELSE IF t = <<>> THEN FALSE
    ELSE IF Head(s) # Head(t) THEN Head(s) < Head(t)
    ELSE StrLeq(Tail(s), Tail(t))

\* the orderings of a set of names
Orderings(names) ==
    {q \in [1..Cardinality(names) -> names] : \A i, j \in DOMAIN q : i # j => q[i] # q[j]}

\* sorted(os.listdir(...)) without the key
Sorted_ByString(names) ==
    {q \in Orderings(names) : \A i, j \in DOMAIN q : i < j => StrLeq(q[i], q[j])}

\* sorted(os.listdir(options.directory), key=lambda s: int(s))
Sorted(names) ==
    {q \in Orderings(names) : \A i, j \in DOMAIN q : i < j => IntOf(q[i]) <= IntOf(q[j])}

InitReduce ==
    /\ \E names \in SUBSET CaseNames :
        /\ Cardinality(names) <= MaxCases
        /\ dir \in [names -> SUBSET {Kinds[k] : k \in DOMAIN Kinds}]
        /\ todo \in Sorted(names)
    /\ cur = NoCase /\ log = <<>>
    /\ TyIdle /\ GenIdle /\ FuzzIdle

\* the position after the kind at index k
AfterKind(k) == IF k = Len(Kinds) THEN NoCase ELSE [cur EXCEPT !.kind = k + 1]

\* the next case_id of the outer loop
OpenCase ==
    /\ cur = NoCase /\ todo # <<>>
    /\ cur' = [case |-> Head(todo), kind |-> 1]
    /\ todo' = Tail(todo)
    /\ log' = Append(log, [case |-> Head(todo), kind |-> "open", reducer |-> "none",
                           extra |-> <<>>, wrote |-> {}])
    /\ UNCHANGED <<dir, tyVars, genVars, fuzzVars>>

\* Check error kind: the marker is absent
SkipKind ==
    /\ cur # NoCase
    /\ Kinds[cur.kind] \notin dir[cur.case]
    /\ cur' = AfterKind(cur.kind)
    /\ UNCHANGED <<dir, todo, log, tyVars, genVars, fuzzVars>>

\* Reduce code: the marker is present
ReduceKind ==
    /\ cur # NoCase
    /\ Kinds[cur.kind] \in dir[cur.case]
    /\ \E extra \in Extras :
        LET wrote == {"code-reduced.txt"} \cup (IF Len(extra) > 0 THEN {"extra.txt"} ELSE {})
        IN /\ dir' = [dir EXCEPT ![cur.case] = @ \cup wrote]
           /\ log' = Append(log, [case |-> cur.case, kind |-> Kinds[cur.kind],
                                  reducer |-> Reducers[cur.kind],
                                  extra |-> extra, wrote |-> wrote])
    /\ cur' = AfterKind(cur.kind)
    /\ UNCHANGED <<todo, tyVars, genVars, fuzzVars>>

NextReduce == OpenCase \/ SkipKind \/ ReduceKind

SpecReduce == InitReduce /\ [][NextReduce]_vars

KindIndex(kind) == CHOOSE k \in DOMAIN Kinds : Kinds[k] = kind

Written == {"code-reduced.txt", "extra.txt"}

\* C10: cases are opened in ascending numeric order of their names; within a
\* case the reducers run in the order COMPILE, RUN, COMPUTE, each only for a
\* marker that exists and with the class paired with its kind; a run writes
\* code-reduced.txt into its case, and extra.txt iff the extra string is not
\* empty; a case holds no written file that no run of it wrote.
C10_ReductionRun ==
    /\ \A i, j \in DOMAIN log : i < j => IntOf(log[i].case) <= IntOf(log[j].case)
    /\ \A i, j \in DOMAIN log :
        (i < j /\ log[i].case = log[j].case) =>
            /\ log[j].kind # "open"
            /\ log[i].kind # "open" => KindIndex(log[i].kind) < KindIndex(log[j].kind)
    /\ \A i \in DOMAIN log : log[i].kind # "open" =>
        /\ log[i].kind \in dir[log[i].case]
        /\ log[i].reducer = (CASE log[i].kind = "COMPILE" -> "CompileReducer"
                               [] log[i].kind = "RUN" -> "RunReducer"
                               [] log[i].kind = "COMPUTE" -> "ComputeReducer")
        /\ "code-reduced.txt" \in log[i].wrote
        /\ "extra.txt" \in log[i].wrote <=> log[i].extra # <<>>
        /\ log[i].wrote \subseteq dir[log[i].case]
    /\ \A c \in DOMAIN dir :
        dir[c] \cap Written =
            UNION {log[i].wrote : i \in {k \in DOMAIN log : log[k].case = c}}

\* a finished run over the cases "2" and "10" with a reduction in each, one
\* with and one without an extra string, and "10" reduced last
C10_Witness ==
    /\ todo = <<>> /\ cur = NoCase
    /\ DOMAIN dir = {<<2>>, <<1, 0>>}
    /\ "extra.txt" \in dir[<<2>>] /\ "extra.txt" \notin dir[<<1, 0>>]
    /\ "code-reduced.txt" \in dir[<<1, 0>>]
    /\ log[Len(log)].case = <<1, 0>>

(***************************************************************************)
(* type_py_value applied to a native value.                                *)
(***************************************************************************)
InitPy ==
    /\ pyv \in PyValues /\ res = NoResult /\ ty = NoType
    /\ GenIdle /\ FuzzIdle /\ RedIdle

CallTypePyValue ==
    /\ res = NoResult
    /\ res' = type_py_value(pyv)
    /\ UNCHANGED <<pyv, ty, genVars, fuzzVars, redVars>>

NextPy == CallTypePyValue

SpecPy == InitPy /\ [][NextPy]_vars

(***************************************************************************)
(* Construction of Type objects.                                           *)
(***************************************************************************)
InitType == TyIdle /\ GenIdle /\ FuzzIdle /\ RedIdle

NewPrim ==
    /\ ty = NoType
    /\ \E t \in {TyInt, TyFloat, TyStr, TyDType} : ty' = t
    /\ UNCHANGED <<pyv, res, genVars, fuzzVars, redVars>>

NewList ==
    /\ ty = NoType
    /\ \E e \in Types : NodeCount(e) < MaxNodes /\ ty' = TyList(e)
    /\ UNCHANGED <<pyv, res, genVars, fuzzVars, redVars>>

NewTuple ==
    /\ ty = NoType
    /\ \E n \in 0..(MaxNodes - 1) : \E f \in FieldSeqs(n) : ty' = TyTuple(f)
    /\ UNCHANGED <<pyv, res, genVars, fuzzVars, redVars>>

NextType == NewPrim \/ NewList \/ NewTuple

SpecType == InitType /\ [][NextType]_vars

RECURSIVE ContainsBadList(_)

\* v is, or holds at some depth, a list that is empty or whose elements are
\* not all of one class
ContainsBadList(v) ==
    /\ v.py \in {"tuple", "list"}
    /\ \/ /\ v.py = "list"
          /\ \/ Len(v.items) = 0
             \/ \E i, j \in DOMAIN v.items : v.items[i].py # v.items[j].py
       \/ \E i \in DOMAIN v.items : ContainsBadList(v.items[i])

\* C3: type_py_value of a value holding an empty or heterogeneous list ends in
\* a TypeError and returns no Type.
C3_BadListIsTypeError ==
    (res # NoResult /\ ContainsBadList(pyv)) => res.exc = "TypeError"

\* C5: == on Types is reflexive, symmetric and transitive, never holds between
\* Types of different constructors, holds between two Tuples iff they have the
\* same number of fields and pairwise equal fields, between two Lists iff their
\* element types are equal, and coincides with identity of structure.
C5_TypeEqIsStructuralEquivalence ==
    ty # NoType =>
        /\ TypeEq(ty, ty)
        /\ \A t2 \in Types :
            LET eq == TypeEq(ty, t2)
            IN /\ eq <=> TypeEq(t2, ty)
               /\ eq <=> (ty = t2)
               /\ IF ty.kind # t2.kind THEN ~eq
                  ELSE IF ty.kind = "TUPLE" THEN
                      eq <=> /\ Len(ty.field_ty_) = Len(t2.field_ty_)
                             /\ \A i \in DOMAIN ty.field_ty_ :
                                    TypeEq(ty.field_ty_[i], t2.field_ty_[i])
                  ELSE IF ty.kind = "LIST" THEN
                      eq <=> TypeEq(ty.elem_ty_, t2.elem_ty_)
                  ELSE eq
               /\ eq => \A t3 \in Types : TypeEq(t2, t3) => TypeEq(ty, t3)

\* a List of Tuples has been constructed and compared
C5_Witness ==
    /\ ty.kind = "LIST"
    /\ ty.elem_ty_.kind = "TUPLE"
    /\ Len(ty.elem_ty_.field_ty_) = 2
    /\ \E t2 \in Types : t2.kind = "LIST" /\ ~TypeEq(ty, t2)

\* C6: is_homo_ of a Tuple is true iff the tuple has at most one field or every
\* field after the first has the structure of the first.
C6_IsHomoIffFieldsEqualFirst ==
    ty.kind = "TUPLE" =>
        (ty.is_homo_ <=>
            \/ Len(ty.field_ty_) <= 1
            \/ \A i \in 2..Len(ty.field_ty_) : ty.field_ty_[i] = ty.field_ty_[1])

\* a Tuple of two fields of different types has been constructed
C6_Witness ==
    /\ ty.kind = "TUPLE"
    /\ Len(ty.field_ty_) = 2
    /\ ty.field_ty_[1] = TyInt /\ ty.field_ty_[2] = TyStr
    /\ ~ty.is_homo_

====
